---- MODULE Spec2Model ----
(***************************************************************************)
(* Model of the carousel generator: the App component's workflow           *)
(* orchestrator (src/src/App.tsx), the generation client and the           *)
(* credential lookup (src/src/components/ApiKeyManager.tsx, second half),   *)
(* the credential dialog (ApiKeyManager.tsx, first half) and the reference- *)
(* image upload (App.tsx handleImageUpload).                                *)
(*                                                                         *)
(* One step of the model is one JavaScript task: an event handler, or the  *)
(* continuation of handleStartAutomation after an awaited provider call     *)
(* settles, run up to its next await.  React state written in a task is    *)
(* published at the end of the task.                                       *)
(***************************************************************************)
EXTENDS Integers, Sequences, FiniteSets, TLC

\* ------------------------------------------------------------------ bounds
MaxRuns == 2        \* runs of handleStartAutomation in flight at the same time
MaxPlanLen == 2     \* longest JSON array the provider returns for a plan
MaxLoads == 1       \* FileReaders of handleLoad pending at the same time
MaxUploaded == 2    \* reference images, read or being read, beside a run
MaxReading == 21    \* FileReaders of handleImageUpload pending at the same time

\* ------------------------------------------------------- program constants
InitCount == 5           \* useState<number>(5)
InitRatio == "1:1"       \* useState<AspectRatio>('1:1')
MaxReferenceImages == 20   \* referenceImages.length + files.length > 20

\* --------------------------------------------------------------- values
\* '' / null / undefined are all falsy in the source; "" stands for them.
Topics == {"", "t1"}
\* slide counts: the initial one and, on the slider (1..10), the length of the
\* longest plan the provider returns
Counts == {MaxPlanLen, InitCount}
Captions == {"c1", "c2"}
ImageData == {"A"}

\* Error messages are sequences of words, so that String.includes is computed.
NotFoundNeedle == <<"Requested", "entity", "was", "not", "found">>
MsgNotFound == <<"404", "Requested", "entity", "was", "not", "found", ".">>
MsgOverload == <<"503", "UNAVAILABLE", "high", "demand">>
MsgMissingKey == <<"API", "Key", "is", "missing", ".">>
MsgNoPlan == <<"Failed", "to", "generate", "plan">>
MsgNoImage == <<"Failed", "to", "generate", "image">>
MsgNoPost == <<"Failed", "to", "generate", "post", "data">>
MsgSyntax == <<"Unexpected", "token">>
ProviderErrors == {MsgNotFound, MsgOverload}

\* String.prototype.includes on word sequences
Includes(s, needle) ==
  \E k \in 0..(Len(s) - Len(needle)) : SubSeq(s, k + 1, k + Len(needle)) = needle

\* types.ts CarouselSegment as the provider's JSON carries it; imageUrl is
\* <<>> while the property is absent, else the data URI.
PlannedSegment(id) ==
  [id |-> id, logicalStep |-> "step", keyMessage |-> "msg",
   visualPrompt |-> "prompt", imageUrl |-> <<>>]

\* The JSON arrays the provider may return for a plan: of any length up to
\* MaxPlanLen numbered from 1 as the schema asks, and one numbered otherwise.
PlanArrays ==
  {[k \in 1..n |-> PlannedSegment(k)] : n \in 0..MaxPlanLen}
  \cup {<<PlannedSegment(2)>>}

\* response of the provider to the plan call: a thrown error, or response.text
PlanResponses ==
  {[kind |-> "error", msg |-> m, value |-> <<>>] : m \in ProviderErrors}
  \cup {[kind |-> "empty", msg |-> <<>>, value |-> <<>>],
        [kind |-> "garbage", msg |-> <<>>, value |-> <<>>]}
  \cup {[kind |-> "json", msg |-> <<>>, value |-> a] : a \in PlanArrays}

\* response to an image call: a thrown error, or the parts of candidates[0];
\* a part is its inlineData.data, "" for a part without inlineData.
ImageResponses ==
  {[kind |-> "error", msg |-> m, parts |-> <<>>] : m \in ProviderErrors}
  \cup {[kind |-> "parts", msg |-> <<>>, parts |-> p] :
          p \in {<<>>, <<"">>} \cup {<<"", d>> : d \in ImageData}}

\* response to the post call
PostResponses ==
  {[kind |-> "error", msg |-> m, caption |-> ""] : m \in ProviderErrors}
  \cup {[kind |-> "empty", msg |-> <<>>, caption |-> ""],
        [kind |-> "garbage", msg |-> <<>>, caption |-> ""]}
  \cup {[kind |-> "json", msg |-> <<>>, caption |-> c] : c \in Captions}

VARIABLES
  screen,            \* 'home' | 'planner'
  topic,             \* useState('')
  count,             \* useState<number>(5)
  ratio,             \* useState<AspectRatio>('1:1')
  segments,          \* useState<CarouselSegment[]>([]): the published list
  postData,          \* useState<InstagramPostData | null>: <<>> is null
  workflowState,     \* useState<WorkflowState>('idle')
  hasApiKey,         \* useState(true), set by checkApiKey on mount
  isKeyManagerOpen,  \* useState(false)
  localStorageKey,   \* localStorage 'CUSTOM_GEMINI_API_KEY', "" when unset
  envKey,            \* process.env.API_KEY || process.env.GEMINI_API_KEY
  runs,              \* the invocations of handleStartAutomation
  lastOp,            \* the task that ran last: "start", "startDisabled",
                     \* "goHome", "test", "testSettled", "save", "load",
                     \* "loadRead", "upload", "download", or "other" for
                     \* the rest
  lastAlert,         \* the alert() the last task showed, "" for none
  apiKeyField,       \* ApiKeyManager useState('') `apiKey`: the key input
  password,          \* ApiKeyManager useState('') `password`
  status,            \* ApiKeyManager 'idle' | 'testing' | 'success' | 'error'
  testing,           \* the handleTest invocation awaiting the provider:
                     \* <<candidate>>, <<>> when none
  loads,             \* the FileReaders of handleLoad that have not fired yet
  lastBlob,          \* the blob the last task handed to saveAs, <<>> for none
  referenceImages,   \* useState<string[]>([])
  reading            \* FileReaders of handleImageUpload that have not fired

\* the state of the credential dialog
dialogVars == <<apiKeyField, password, status, testing, loads, lastBlob>>

\* the state of the reference-image upload
uploadVars == <<referenceImages, reading>>

vars == <<screen, topic, count, ratio, segments, postData, workflowState, hasApiKey,
          isKeyManagerOpen, localStorageKey, envKey, runs, lastOp, lastAlert,
          dialogVars, uploadVars>>

\* ------------------------------------------------------ credential lookup
\* a lookup that prefers the environment value
getApiKeyEnvFirst(stored, env) ==
  IF env # "" THEN env ELSE stored

\* getApiKey: localStorage.getItem(..) || process.env.API_KEY || ...
getApiKey(stored, env) ==
  IF stored # "" THEN stored ELSE env

ApiKey == getApiKey(localStorageKey, envKey)

\* a check that looks at the environment's credential only
checkApiKeyEnvOnly(stored, env) ==
  env # ""

\* checkApiKey: setHasApiKey(!!getApiKey())
checkApiKey(stored, env) ==
  getApiKey(stored, env) # ""

\* ------------------------------------------------------ generation client
\* Each client function, given the credential getApiKey() returned and the
\* provider's response, returns or throws: [ok, value, msg].
\* a client that does not look at the credential before calling the provider
KeyMissingUnchecked(apiKey) == FALSE

\* if (!apiKey) throw new Error("API Key is missing.")
KeyMissing(apiKey) == apiKey = ""

Ok(v) == [ok |-> TRUE, value |-> v, msg |-> <<>>]
Throw(m) == [ok |-> FALSE, value |-> <<>>, msg |-> m]

\* generatePlan: throws without a credential, rethrows the provider's error,
\* throws on an empty text, lets JSON.parse throw, else returns the parsed
\* array as it is.
generatePlan(apiKey, resp) ==
  IF KeyMissing(apiKey) THEN Throw(MsgMissingKey)
  ELSE IF resp.kind = "error" THEN Throw(resp.msg)
  ELSE IF resp.kind = "empty" THEN Throw(MsgNoPlan)
  ELSE IF resp.kind = "garbage" THEN Throw(MsgSyntax)
  ELSE Ok(resp.value)

\* the first part of the response that has inlineData, 0 when none has
FirstInline(parts) ==
  IF \E k \in 1..Len(parts) : parts[k] # ""
  THEN CHOOSE k \in 1..Len(parts) :
         parts[k] # "" /\ \A j \in 1..(k - 1) : parts[j] = ""
  ELSE 0

\* `data:image/png;base64,${part.inlineData.data}`
DataUri(data) == <<"data:image/png;base64", data>>

\* generateImage: the data URI of the first inline part, else throws
generateImage(apiKey, resp) ==
  IF KeyMissing(apiKey) THEN Throw(MsgMissingKey)
  ELSE IF resp.kind = "error" THEN Throw(resp.msg)
  ELSE IF FirstInline(resp.parts) = 0 THEN Throw(MsgNoImage)
  ELSE Ok(DataUri(resp.parts[FirstInline(resp.parts)]))

\* generateInstagramPost
generateInstagramPost(apiKey, resp) ==
  IF KeyMissing(apiKey) THEN Throw(MsgMissingKey)
  ELSE IF resp.kind = "error" THEN Throw(resp.msg)
  ELSE IF resp.kind = "empty" THEN Throw(MsgNoPost)
  ELSE IF resp.kind = "garbage" THEN Throw(MsgSyntax)
  ELSE Ok([caption |-> resp.caption, hashtags |-> <<"#tag">>])

\* ------------------------------------------------- workflow orchestrator
\* A run is one invocation of handleStartAutomation that got past its guards:
\* its closure (topic, count, ratio, referenceImages: the constants of the
\* render in which the button was clicked), its locals (newSegments, i),
\* where it is suspended (pc), the provider calls it has outstanding
\* (pending), the arguments of the call it awaits (args) and the calls it has
\* issued so far (issued).
IdleRun ==
  [pc |-> "unused", topic |-> "", count |-> 0, ratio |-> "",
   referenceImages |-> <<>>, newSegments |-> <<>>, i |-> 0,
   pending |-> {}, issued |-> <<>>, args |-> <<>>]

Call(kind, idx, key) == [kind |-> kind, idx |-> idx, key |-> key]

\* generatePlan(topic, count, ratio, referenceImages)
generatePlanArgs(run) ==
  <<run.topic, run.count, run.ratio, run.referenceImages>>

\* image arguments read from the latest render instead of the closure
generateImageArgsLatest(run, i) ==
  <<i, ratio, referenceImages>>

\* generateImage(newSegments[i], ratio, referenceImages); the segment, a
\* local of the run, is given by its index
generateImageArgs(run, i) ==
  <<i, run.ratio, run.referenceImages>>

\* generateInstagramPost(topic, newSegments); newSegments is the run's local
\* list, "newSegments" stands for it
generateInstagramPostArgs(run) ==
  <<run.topic, "newSegments">>

Active(run) == run.pc \in {"await_plan", "await_image", "await_post"}

\* the React state a task of handleStartAutomation reads and writes, with the
\* alert it shows
Published ==
  [workflowState |-> workflowState, segments |-> segments, postData |-> postData,
   hasApiKey |-> hasApiKey, isKeyManagerOpen |-> isKeyManagerOpen, alert |-> ""]

\* a catch block that also throws away what the run had published
handleStartAutomationCatchDiscards(st, msg) ==
  [st EXCEPT !.workflowState = "idle", !.segments = <<>>, !.alert = "generic"]

\* a catch block that classifies nothing: every failure gets the generic alert
handleStartAutomationCatchUnclassified(st, msg) ==
  [st EXCEPT !.workflowState = "idle", !.alert = "generic"]

\* a catch block that marks the credential absent on every failure
handleStartAutomationCatchClearsFlag(st, msg) ==
  [st EXCEPT !.workflowState = "idle", !.hasApiKey = FALSE,
             !.alert = IF Includes(msg, NotFoundNeedle)
                       THEN "invalid_key" ELSE "generic"]

\* catch (e): setWorkflowState('idle'); classify e.message
handleStartAutomationCatch(st, msg) ==
  IF Includes(msg, NotFoundNeedle)
  THEN [st EXCEPT !.workflowState = "idle", !.hasApiKey = FALSE,
                  !.alert = "invalid_key"]
  ELSE [st EXCEPT !.workflowState = "idle", !.alert = "generic"]

\* a catch block that issues the failed call once more
FailedRetries(st, run, msg) ==
  [st |-> st, run |-> [run EXCEPT !.issued = Append(@, "retry")]]

\* a run that has returned or thrown leaves nothing behind but its state updates
Failed(st, run, msg) ==
  [st |-> handleStartAutomationCatch(st, msg), run |-> IdleRun]

\* a loop that fires the calls for all remaining segments at once
generateImageCallsUnawaited(newSegments, i, key) ==
  {Call("image", j, key) : j \in i..Len(newSegments)}

\* the calls one iteration of the image loop issues and awaits
generateImageCalls(newSegments, i, key) ==
  {Call("image", i, key)}

\* Step 3: setWorkflowState('generating_caption'); await generateInstagramPost
CaptionStep(st, run, key) ==
  LET st1 == [st EXCEPT !.workflowState = "generating_caption"] IN
  IF KeyMissing(key)
  THEN Failed(st1, run, MsgMissingKey)
  ELSE [st |-> st1,
        run |-> [run EXCEPT !.pc = "await_post",
                            !.pending = {Call("post", 0, key)},
                            !.args = generateInstagramPostArgs(run),
                            !.issued = Append(@, "post")]]

\* a loop whose index never advances past the first segment
ImageLoopStuck(st, run, i, key) ==
  IF Len(run.newSegments) >= 1
  THEN [st |-> st,
        run |-> [run EXCEPT !.pc = "await_image", !.i = 1,
                   !.pending = generateImageCalls(run.newSegments, 1, key),
                   !.issued = Append(@, "image")]]
  ELSE CaptionStep(st, [run EXCEPT !.i = i], key)

\* the for loop from its test at index i: the next generateImage call, or,
\* past the last segment, the caption step
ImageLoop(st, run, i, key) ==
  IF i <= Len(run.newSegments)
  THEN IF KeyMissing(key)
       THEN Failed(st, [run EXCEPT !.i = i], MsgMissingKey)
       ELSE [st |-> st,
             run |-> [run EXCEPT !.pc = "await_image", !.i = i,
                        !.pending = generateImageCalls(run.newSegments, i, key),
                        !.args = generateImageArgs(run, i),
                        !.issued = Append(@, "image")]]
  ELSE CaptionStep(st, [run EXCEPT !.i = i], key)

\* guards that test the topic only
handleStartAutomationGuardTopicOnly(has, t) ==
  IF t = "" THEN "return" ELSE "run"

\* the guards of handleStartAutomation
handleStartAutomationGuard(has, t) ==
  IF ~has THEN "open_key_manager"
  ELSE IF t = "" THEN "return"
  ELSE "run"

\* handleStartAutomation up to its first await; ratio and referenceImages
\* are, like t and c, the values of the render the click happened in
StartTask(st, t, c, key) ==
  LET go == handleStartAutomationGuard(st.hasApiKey, t) IN
  IF go = "open_key_manager"
  THEN [st |-> [st EXCEPT !.isKeyManagerOpen = TRUE], run |-> IdleRun]
  ELSE IF go = "return"
  THEN [st |-> st, run |-> IdleRun]
  ELSE LET st1 == [st EXCEPT !.segments = <<>>, !.postData = <<>>,
                             !.workflowState = "planning"]
           run == [IdleRun EXCEPT !.topic = t, !.count = c, !.ratio = ratio,
                                  !.referenceImages = referenceImages]
       IN IF KeyMissing(key)
          THEN Failed(st1, run, MsgMissingKey)
          ELSE [st |-> st1,
                run |-> [run EXCEPT !.pc = "await_plan",
                                    !.pending = {Call("plan", 0, key)},
                                    !.args = generatePlanArgs(run),
                                    !.issued = <<"plan">>]]

\* the continuation after `await generatePlan(...)` settles with res; count
\* is not read again
PlanTask(st, run, res, key) ==
  IF ~res.ok
  THEN Failed(st, run, res.msg)
  ELSE LET st1 == [st EXCEPT !.segments = res.value,
                             !.workflowState = "generating_images"]
       IN ImageLoop(st1, [run EXCEPT !.newSegments = res.value, !.pending = {},
                                     !.count = 0],
                    1, key)

\* an assignment that always lands on the first segment
SetImageUrlOnFirst(newSegments, i, imgUrl) ==
  [newSegments EXCEPT ![1].imageUrl = imgUrl]

\* newSegments[i].imageUrl = imgUrl
SetImageUrl(newSegments, i, imgUrl) ==
  [newSegments EXCEPT ![i].imageUrl = imgUrl]

\* the continuation after `await generateImage(newSegments[i], ...)` settles
ImageTask(st, run, res, key) ==
  IF ~res.ok
  THEN Failed(st, run, res.msg)
  ELSE LET ns == SetImageUrl(run.newSegments, run.i, res.value)
           st1 == [st EXCEPT !.segments = ns]
       IN ImageLoop(st1, [run EXCEPT !.newSegments = ns, !.pending = {}],
                    run.i + 1, key)

\* the continuation after `await generateInstagramPost(...)` settles
PostTask(st, run, res) ==
  IF ~res.ok
  THEN Failed(st, run, res.msg)
  ELSE [st |-> [st EXCEPT !.postData = <<res.value>>,
                          !.workflowState = "completed"],
        run |-> IdleRun]

\* ------------------------------------------------------ credential dialog
\* useEffect(() => { const stored = localStorage.getItem(..);
\*                   if (stored) setApiKey(stored) }, [isOpen])
isOpenEffect(field, stored) == IF stored # "" THEN stored ELSE field

\* ----------------------------------------------------------------- state
\* what the browser holds in localStorage and the build in process.env when
\* the page loads: no credential at all, or one stored by an earlier session
KeySetups == {<<"", "">>, <<"k1", "">>}

\* The state once App has mounted: the useState initial values, then the
\* mount effect's checkApiKey().
Init ==
  /\ screen = "home"
  /\ topic = ""
  /\ count = InitCount
  /\ ratio = InitRatio
  /\ segments = <<>>
  /\ postData = <<>>
  /\ workflowState = "idle"
  /\ \E ks \in KeySetups : localStorageKey = ks[1] /\ envKey = ks[2]
  /\ hasApiKey = checkApiKey(localStorageKey, envKey)
  /\ isKeyManagerOpen = FALSE
  /\ runs = [r \in 1..MaxRuns |-> IdleRun]
  /\ lastOp = "mount"
  /\ lastAlert = ""
  /\ apiKeyField = isOpenEffect("", localStorageKey)
  /\ password = ""
  /\ status = "idle"
  /\ testing = <<>>
  /\ loads = {}
  /\ lastBlob = <<>>
  /\ referenceImages = <<>>
  /\ reading = 0

\* a task of handleStartAutomation publishes its React state and its alert
Publish(st) ==
  /\ workflowState' = st.workflowState
  /\ segments' = st.segments
  /\ postData' = st.postData
  /\ hasApiKey' = st.hasApiKey
  /\ isKeyManagerOpen' = st.isKeyManagerOpen
  /\ lastAlert' = st.alert

\* the run slot the next invocation takes, MaxRuns + 1 when all are taken
NextRun ==
  IF \E r \in 1..MaxRuns : runs[r].pc = "unused"
  THEN CHOOSE r \in 1..MaxRuns :
         runs[r].pc = "unused" /\ \A q \in 1..(r - 1) : runs[q].pc # "unused"
  ELSE MaxRuns + 1

\* ------------------------------------------------------------ user actions
\* home screen: onClick={() => setScreen('planner')}
OpenPlanner ==
  /\ screen = "home"
  /\ screen' = "planner"
  /\ lastOp' = "other"
  /\ lastAlert' = ""
  /\ UNCHANGED <<topic, count, ratio, segments, postData, workflowState, hasApiKey,
                 isKeyManagerOpen, localStorageKey, envKey, runs>>
  /\ UNCHANGED <<dialogVars, uploadVars>>

\* topic input: onChange={(e) => setTopic(e.target.value)}
SetTopic ==
  /\ screen = "planner"
  /\ \E t \in Topics : t # topic /\ topic' = t
  /\ lastOp' = "other"
  /\ lastAlert' = ""
  /\ UNCHANGED <<screen, count, ratio, segments, postData, workflowState, hasApiKey,
                 isKeyManagerOpen, localStorageKey, envKey, runs>>
  /\ UNCHANGED <<dialogVars, uploadVars>>

\* slide-count slider
SetCount ==
  /\ screen = "planner"
  /\ \E c \in Counts : c # count /\ count' = c
  /\ lastOp' = "other"
  /\ lastAlert' = ""
  /\ UNCHANGED <<screen, topic, ratio, segments, postData, workflowState,
                 hasApiKey, isKeyManagerOpen, localStorageKey, envKey, runs>>
  /\ UNCHANGED <<dialogVars, uploadVars>>

\* header key button and the dialog's close button
\* (isOpen changes, so the dialog's effect runs)
ToggleKeyManager ==
  /\ isKeyManagerOpen' = ~isKeyManagerOpen
  /\ apiKeyField' = isOpenEffect(apiKeyField, localStorageKey)
  /\ lastOp' = "other"
  /\ lastAlert' = ""
  /\ lastBlob' = <<>>
  /\ UNCHANGED <<screen, topic, count, ratio, segments, postData, workflowState,
                 hasApiKey, localStorageKey, envKey, runs>>
  /\ UNCHANGED <<password, status, testing, loads, uploadVars>>

\* handleGoHome: the header logo (always shown) and the button of the
\* completed run
handleGoHome ==
  /\ topic' = ""
  /\ segments' = <<>>
  /\ postData' = <<>>
  /\ workflowState' = "idle"
  /\ screen' = "home"
  /\ referenceImages' = <<>>
  /\ lastOp' = "goHome"
  /\ lastAlert' = ""
  /\ UNCHANGED <<count, ratio, hasApiKey, isKeyManagerOpen, localStorageKey, envKey, runs>>
  /\ UNCHANGED <<dialogVars, reading>>

\* the start button is disabled={!topic || workflowState !== 'idle'}
StartDisabled == topic = "" \/ workflowState # "idle"

\* a click on the start button while it is disabled reaches no handler
StartClickDisabled ==
  /\ screen = "planner"
  /\ StartDisabled
  /\ lastOp' = "startDisabled"
  /\ lastAlert' = ""
  /\ UNCHANGED <<screen, topic, count, ratio, segments, postData, workflowState,
                 hasApiKey, isKeyManagerOpen, localStorageKey, envKey, runs>>
  /\ UNCHANGED <<dialogVars, uploadVars>>

\* onClick={handleStartAutomation}
handleStartAutomation ==
  /\ screen = "planner"
  /\ ~StartDisabled
  /\ NextRun <= MaxRuns
  /\ LET out == StartTask(Published, topic, count, ApiKey) IN
       /\ Publish(out.st)
       /\ runs' = IF out.run.pc = "unused" THEN runs
                  ELSE [runs EXCEPT ![NextRun] = out.run]
       /\ apiKeyField' = IF out.st.isKeyManagerOpen # isKeyManagerOpen
                         THEN isOpenEffect(apiKeyField, localStorageKey)
                         ELSE apiKeyField
  /\ lastOp' = "start"
  /\ UNCHANGED <<screen, topic, count, ratio, localStorageKey, envKey>>
  /\ UNCHANGED <<password, status, testing, loads, lastBlob, uploadVars>>

\* ------------------------------------------------------ provider responses
\* the plan call of run r settles
PlanResponse(r) ==
  /\ runs[r].pc = "await_plan"
  /\ \E c \in runs[r].pending, resp \in PlanResponses :
       /\ c.kind = "plan"
       /\ LET out == PlanTask(Published, runs[r], generatePlan(c.key, resp), ApiKey) IN
            /\ Publish(out.st)
            /\ runs' = [runs EXCEPT ![r] = out.run]
  /\ lastOp' = "other"
  /\ UNCHANGED <<screen, topic, count, ratio, localStorageKey, envKey>>
  /\ UNCHANGED <<dialogVars, uploadVars>>

\* the image call run r awaits settles
ImageResponse(r) ==
  /\ runs[r].pc = "await_image"
  /\ \E c \in runs[r].pending, resp \in ImageResponses :
       /\ c.kind = "image" /\ c.idx = runs[r].i
       /\ LET out == ImageTask(Published, runs[r], generateImage(c.key, resp), ApiKey) IN
            /\ Publish(out.st)
            /\ runs' = [runs EXCEPT ![r] = out.run]
  /\ lastOp' = "other"
  /\ UNCHANGED <<screen, topic, count, ratio, localStorageKey, envKey>>
  /\ UNCHANGED <<dialogVars, uploadVars>>

\* the post call of run r settles
PostResponse(r) ==
  /\ runs[r].pc = "await_post"
  /\ \E c \in runs[r].pending, resp \in PostResponses :
       /\ c.kind = "post"
       /\ LET out == PostTask(Published, runs[r], generateInstagramPost(c.key, resp)) IN
            /\ Publish(out.st)
            /\ runs' = [runs EXCEPT ![r] = out.run]
  /\ lastOp' = "other"
  /\ UNCHANGED <<screen, topic, count, ratio, localStorageKey, envKey>>
  /\ UNCHANGED <<dialogVars, uploadVars>>

Next ==
  \/ OpenPlanner
  \/ SetTopic
  \/ SetCount
  \/ ToggleKeyManager
  \/ handleGoHome
  \/ StartClickDisabled
  \/ handleStartAutomation
  \/ \E r \in 1..MaxRuns : PlanResponse(r)
  \/ \E r \in 1..MaxRuns : ImageResponse(r)
  \/ \E r \in 1..MaxRuns : PostResponse(r)

Spec == Init /\ [][Next]_vars

\* ==================================================== credential dialog
\* The ApiKeyManager component.  Its tasks: the handlers of its inputs and
\* buttons, the continuation of handleTest after the provider's answer, and
\* the onload callback of handleLoad's FileReader.

\* what the user types into the key input and the passphrase input
Keys == {"k1", "k2"}
Passphrases == {"p1", "p2"}

\* the provider's errors to the test call
MsgInvalidKey == <<"400", "API", "key", "not", "valid">>
MsgStatus503 == <<"got", "status", "503">>
MsgUnavailable == <<"status", "UNAVAILABLE">>
MsgHighDemand == <<"model", "is", "experiencing", "high", "demand">>
MsgNoResponse == <<"No", "response">>
TestErrors ==
  {MsgInvalidKey, MsgNotFound, MsgOverload, MsgStatus503, MsgUnavailable,
   MsgHighDemand}

\* the provider's answer to the test call: a text, no text, or a thrown error
TestResponses ==
  {[kind |-> "text", msg |-> <<>>], [kind |-> "empty", msg |-> <<>>]}
  \cup {[kind |-> "error", msg |-> m] : m \in TestErrors}

\* errorString.includes('503') || .includes('UNAVAILABLE') || .includes('high demand')
OverloadNeedles == {<<"503">>, <<"UNAVAILABLE">>, <<"high", "demand">>}

\* JSON.stringify(e, Object.getOwnPropertyNames(e)): the own properties of the
\* Error, its stack and its message
errorString(msg) == <<"{", "stack", ":", "Error", "at", "handleTest", ",",
                      "message", ":">> \o msg \o <<"}">>

\* a handleTest that persists the candidate whatever the provider answered
handleTestPersistsAlways(resp) == TRUE

\* a handleTest that takes only an answer with a text for a success
handleTestPersistsOnTextOnly(resp) == resp.kind = "text"

\* handleTest after the await: TRUE when it reaches one of its two
\* localStorage.setItem calls
handleTestPersists(resp) ==
  IF resp.kind = "text" THEN TRUE
  ELSE LET msg == IF resp.kind = "empty" THEN MsgNoResponse ELSE resp.msg IN
       \E needle \in OverloadNeedles : Includes(errorString(msg), needle)

\* an export that names the field otherwise than the import reads it
StringifyOtherField(k) == <<"{", "gemini_api_key", ":", k, "}">>

\* JSON.stringify({ GEMINI_API_KEY: apiKey }), as tokens
Stringify(k) == <<"{", "GEMINI_API_KEY", ":", k, "}">>

\* JSON.parse: an object of at most one field, or a SyntaxError
ParseThrows(text) ==
  ~ \/ text = <<"{", "}">>
    \/ Len(text) = 5 /\ text[1] = "{" /\ text[3] = ":" /\ text[5] = "}"
Parse(text) ==
  IF Len(text) = 5 THEN [name |-> text[2], value |-> text[4]]
  ELSE [name |-> "", value |-> ""]

\* parsed.GEMINI_API_KEY: "" (undefined) when the object has no such field
GEMINI_API_KEY(parsed) ==
  IF parsed.name = "GEMINI_API_KEY" THEN parsed.value ELSE ""

\* CryptoJS.AES.encrypt(data, password).toString(): a ciphertext that the
\* passphrase opens
Encrypt(data, pass) == [cipher |-> "aes", plain |-> data, pass |-> pass]

\* a file that is no ciphertext at all
CorruptBlob == [cipher |-> "none", plain |-> <<>>, pass |-> ""]

\* bytes that are text but no JSON
Garbage == <<"?", "?">>

\* a decryption that opens the ciphertext whatever the passphrase
DecryptIgnoresPassphrase(blob, pass) ==
  IF blob.cipher = "aes"
  THEN {[ok |-> TRUE, text |-> blob.plain]}
  ELSE {[ok |-> FALSE, text |-> <<>>], [ok |-> TRUE, text |-> <<>>]}

\* CryptoJS.AES.decrypt(encrypted, password).toString(CryptoJS.enc.Utf8): the
\* plaintext under the right passphrase; otherwise whatever the bytes give:
\* a Malformed UTF-8 error (ok = FALSE), the empty string, or some text
Decrypt(blob, pass) ==
  IF blob.cipher = "aes" /\ pass = blob.pass
  THEN {[ok |-> TRUE, text |-> blob.plain]}
  ELSE {[ok |-> FALSE, text |-> <<>>], [ok |-> TRUE, text |-> <<>>],
        [ok |-> TRUE, text |-> Garbage]}

\* the files handleSave can have written, in this session or an earlier one
ExportedFiles == {Encrypt(Stringify(k), p) : k \in Keys, p \in Passphrases}

\* other files the user may pick: no ciphertext, and ciphertexts of a payload
\* without the field, with an empty field, and of text that is no JSON
ForeignFiles ==
  {CorruptBlob,
   Encrypt(<<"{", "}">>, "p1"),
   Encrypt(Stringify(""), "p1"),
   Encrypt(<<"not", "json">>, "p1")}

Files == ExportedFiles \cup ForeignFiles

\* the variables of the workflow, which the dialog does not touch
workflowVars ==
  <<screen, topic, count, ratio, segments, postData, workflowState, runs>>

\* key input: onChange={(e) => setApiKey(e.target.value)}
SetApiKey ==
  /\ isKeyManagerOpen
  /\ \E k \in {""} \cup Keys : k # apiKeyField /\ apiKeyField' = k
  /\ lastOp' = "other"
  /\ lastAlert' = ""
  /\ lastBlob' = <<>>
  /\ UNCHANGED <<password, status, testing, loads>>
  /\ UNCHANGED <<workflowVars, uploadVars, hasApiKey, isKeyManagerOpen,
                 localStorageKey, envKey>>

\* passphrase input: onChange={(e) => setPassword(e.target.value)}
SetPassword ==
  /\ isKeyManagerOpen
  /\ \E pw \in {""} \cup Passphrases : pw # password /\ password' = pw
  /\ lastOp' = "other"
  /\ lastAlert' = ""
  /\ lastBlob' = <<>>
  /\ UNCHANGED <<apiKeyField, status, testing, loads>>
  /\ UNCHANGED <<workflowVars, uploadVars, hasApiKey, isKeyManagerOpen,
                 localStorageKey, envKey>>

\* handleTest up to its await; the button is disabled={status === 'testing'}
handleTest ==
  /\ isKeyManagerOpen
  /\ status # "testing"
  /\ IF apiKeyField = ""
     THEN status' = "error" /\ testing' = testing
     ELSE status' = "testing" /\ testing' = <<apiKeyField>>
  /\ lastOp' = "test"
  /\ lastAlert' = ""
  /\ lastBlob' = <<>>
  /\ UNCHANGED <<apiKeyField, password, loads>>
  /\ UNCHANGED <<workflowVars, uploadVars, hasApiKey, isKeyManagerOpen,
                 localStorageKey, envKey>>

\* a continuation that stores what the key input holds when the call settles
handleTestSettledReadsInput(cand, resp, stored, has, env) ==
  IF handleTestPersists(resp)
  THEN [status |-> "success", localStorageKey |-> apiKeyField,
        hasApiKey |-> checkApiKey(apiKeyField, env)]
  ELSE [status |-> "error", localStorageKey |-> stored, hasApiKey |-> has]

\* handleTest after `await ai.models.generateContent(...)` settles with resp,
\* for the apiKey of the invocation (cand): on a success or an overload error
\* localStorage.setItem(.., apiKey), then onKeyUpdated() = checkApiKey()
handleTestSettled(cand, resp, stored, has, env) ==
  IF handleTestPersists(resp)
  THEN [status |-> "success", localStorageKey |-> cand,
        hasApiKey |-> checkApiKey(cand, env)]
  ELSE [status |-> "error", localStorageKey |-> stored, hasApiKey |-> has]

\* the provider answers the test call
TestResponse ==
  /\ testing # <<>>
  /\ \E resp \in TestResponses :
       LET out == handleTestSettled(testing[1], resp, localStorageKey,
                                    hasApiKey, envKey)
       IN /\ status' = out.status
          /\ localStorageKey' = out.localStorageKey
          /\ hasApiKey' = out.hasApiKey
  /\ testing' = <<>>
  /\ lastOp' = "testSettled"
  /\ lastAlert' = ""
  /\ lastBlob' = <<>>
  /\ UNCHANGED <<apiKeyField, password, loads>>
  /\ UNCHANGED <<workflowVars, uploadVars, isKeyManagerOpen, envKey>>

\* a guard that asks for the key only
handleSaveGuardKeyOnly(field, pass) == field = ""

\* if (!apiKey || !password) { alert(..); return }
handleSaveGuard(field, pass) == field = "" \/ pass = ""

\* handleSave: the export button.  Past the guard: the blob goes to saveAs,
\* localStorage.setItem(.., apiKey), onKeyUpdated(); an exception on the way
\* to saveAs lands in the catch.
handleSave ==
  /\ isKeyManagerOpen
  /\ IF handleSaveGuard(apiKeyField, password)
     THEN /\ lastAlert' = "save_needs_input"
          /\ lastBlob' = <<>>
          /\ UNCHANGED <<localStorageKey, hasApiKey>>
     ELSE \E thrown \in BOOLEAN :
            IF thrown
            THEN /\ lastAlert' = "save_failed"
                 /\ lastBlob' = <<>>
                 /\ UNCHANGED <<localStorageKey, hasApiKey>>
            ELSE /\ lastBlob' = <<Encrypt(Stringify(apiKeyField), password)>>
                 /\ localStorageKey' = apiKeyField
                 /\ hasApiKey' = checkApiKey(apiKeyField, envKey)
                 /\ lastAlert' = "saved"
  /\ lastOp' = "save"
  /\ UNCHANGED <<apiKeyField, password, status, testing, loads>>
  /\ UNCHANGED <<workflowVars, uploadVars, isKeyManagerOpen, envKey>>

\* handleLoad: the user has picked a file for the hidden file input.  Without
\* a passphrase: alert and return; else a FileReader is started, whose onload
\* closes over the passphrase of this render.
handleLoad ==
  /\ isKeyManagerOpen
  /\ \E file \in Files :
       IF password = ""
       THEN lastAlert' = "load_needs_password" /\ loads' = loads
       ELSE /\ lastAlert' = ""
            /\ loads' = loads \cup {[file |-> file, password |-> password]}
            /\ Cardinality(loads') <= MaxLoads
  /\ lastOp' = "load"
  /\ lastBlob' = <<>>
  /\ UNCHANGED <<apiKeyField, password, status, testing>>
  /\ UNCHANGED <<workflowVars, uploadVars, hasApiKey, isKeyManagerOpen,
                 localStorageKey, envKey>>

\* reader.onload, given what the decryption gave: the alert it shows and the
\* key it stores ("" when it stores none)
onload(d) ==
  IF ~d.ok \/ d.text = <<>> \/ ParseThrows(d.text)
  THEN [alert |-> "load_failed", key |-> ""]
  ELSE IF GEMINI_API_KEY(Parse(d.text)) # ""
  THEN [alert |-> "loaded", key |-> GEMINI_API_KEY(Parse(d.text))]
  ELSE [alert |-> "", key |-> ""]

\* the FileReader of a handleLoad fires onload
LoadRead ==
  /\ \E l \in loads :
       /\ loads' = loads \ {l}
       /\ \E d \in Decrypt(l.file, l.password) :
            LET out == onload(d) IN
              /\ lastAlert' = out.alert
              /\ IF out.key # ""
                 THEN /\ apiKeyField' = out.key
                      /\ localStorageKey' = out.key
                      /\ hasApiKey' = checkApiKey(out.key, envKey)
                 ELSE UNCHANGED <<apiKeyField, localStorageKey, hasApiKey>>
  /\ lastOp' = "loadRead"
  /\ lastBlob' = <<>>
  /\ UNCHANGED <<password, status, testing>>
  /\ UNCHANGED <<workflowVars, uploadVars, isKeyManagerOpen, envKey>>

\* the FileReader fails: onload never fires
LoadError ==
  /\ \E l \in loads : loads' = loads \ {l}
  /\ lastOp' = "other"
  /\ lastAlert' = ""
  /\ lastBlob' = <<>>
  /\ UNCHANGED <<apiKeyField, password, status, testing>>
  /\ UNCHANGED <<workflowVars, uploadVars, hasApiKey, isKeyManagerOpen,
                 localStorageKey, envKey>>

\* localStorage and process.env when the page loads, the environment
\* fallback included
AllKeySetups == {<<s, e>> : s \in {"", "k1"}, e \in {"", "e1"}}

\* the state once App and ApiKeyManager have mounted
KeyInit ==
  /\ screen = "home"
  /\ topic = ""
  /\ count = InitCount
  /\ ratio = InitRatio
  /\ segments = <<>>
  /\ postData = <<>>
  /\ workflowState = "idle"
  /\ \E ks \in AllKeySetups : localStorageKey = ks[1] /\ envKey = ks[2]
  /\ hasApiKey = checkApiKey(localStorageKey, envKey)
  /\ isKeyManagerOpen = FALSE
  /\ runs = [r \in 1..MaxRuns |-> IdleRun]
  /\ lastOp = "mount"
  /\ lastAlert = ""
  /\ apiKeyField = isOpenEffect("", localStorageKey)
  /\ password = ""
  /\ status = "idle"
  /\ testing = <<>>
  /\ loads = {}
  /\ lastBlob = <<>>
  /\ referenceImages = <<>>
  /\ reading = 0

KeyNext ==
  \/ ToggleKeyManager
  \/ SetApiKey
  \/ SetPassword
  \/ handleTest
  \/ TestResponse
  \/ handleSave
  \/ handleLoad
  \/ LoadRead
  \/ LoadError

\* the credential dialog on its own
KeySpec == KeyInit /\ [][KeyNext]_vars

\* ================================================ reference-image upload
\* event.target.result of readAsDataURL
ImageDataUrl == <<"data:image/png;base64", "R">>

\* how many files the user selects in the file dialog (the input is `multiple`)
BatchSizes == {0, 1, 2, MaxReferenceImages, MaxReferenceImages + 1}

\* a limit that looks at the selected files only
handleImageUploadRejectsBatchOnly(len, n) == n > MaxReferenceImages

\* if (referenceImages.length + files.length > 20) { alert(..); return }
handleImageUploadRejects(len, n) == len + n > MaxReferenceImages

\* handleImageUpload: the file input is disabled at 20 images; a rejected
\* selection alerts and returns, an accepted one starts a FileReader per file
handleImageUpload ==
  /\ screen = "planner"
  /\ Len(referenceImages) < MaxReferenceImages
  /\ \E n \in BatchSizes :
       IF handleImageUploadRejects(Len(referenceImages), n)
       THEN lastAlert' = "too_many_images" /\ reading' = reading
       ELSE /\ lastAlert' = ""
            /\ reading' = reading + n
            /\ reading' <= MaxReading
  /\ lastOp' = "upload"
  /\ UNCHANGED <<workflowVars, dialogVars, referenceImages, hasApiKey,
                 isKeyManagerOpen, localStorageKey, envKey>>

\* reader.onload with a result: setReferenceImages(prev => [...prev, result])
ImageRead ==
  /\ reading > 0
  /\ reading' = reading - 1
  /\ referenceImages' = Append(referenceImages, ImageDataUrl)
  /\ lastOp' = "other"
  /\ lastAlert' = ""
  /\ UNCHANGED <<workflowVars, dialogVars, hasApiKey, isKeyManagerOpen,
                 localStorageKey, envKey>>

\* the FileReader fails, or fires without a result: nothing is appended
ImageReadNothing ==
  /\ reading > 0
  /\ reading' = reading - 1
  /\ lastOp' = "other"
  /\ lastAlert' = ""
  /\ UNCHANGED <<workflowVars, dialogVars, referenceImages, hasApiKey,
                 isKeyManagerOpen, localStorageKey, envKey>>

\* prev.filter((_, i) => i !== index), index counted from 1 here
Without(prev, index) ==
  [k \in 1..(Len(prev) - 1) |-> IF k < index THEN prev[k] ELSE prev[k + 1]]

\* removeReferenceImage(idx): the button on a thumbnail
removeReferenceImage ==
  /\ screen = "planner"
  /\ \E index \in 1..Len(referenceImages) :
       referenceImages' = Without(referenceImages, index)
  /\ lastOp' = "other"
  /\ lastAlert' = ""
  /\ UNCHANGED <<workflowVars, dialogVars, reading, hasApiKey,
                 isKeyManagerOpen, localStorageKey, envKey>>

UploadNext ==
  \/ OpenPlanner
  \/ handleGoHome
  \/ handleImageUpload
  \/ ImageRead
  \/ ImageReadNothing
  \/ removeReferenceImage

\* the reference-image upload on its own
UploadSpec == Init /\ [][UploadNext]_vars

\* ============================================ client without a credential
\* localStorage belongs to the browser: the user can clear the site's data
\* while the page is open.  The app is not told; getApiKey() reads the slot
\* again at every client call.
StorageCleared ==
  /\ localStorageKey # ""
  /\ localStorageKey' = ""
  /\ lastOp' = "other"
  /\ lastAlert' = ""
  /\ UNCHANGED <<workflowVars, dialogVars, uploadVars, hasApiKey,
                 isKeyManagerOpen, envKey>>

ClientNext ==
  \/ OpenPlanner
  \/ SetTopic
  \/ handleGoHome
  \/ handleStartAutomation
  \/ \E r \in 1..MaxRuns : PlanResponse(r)
  \/ \E r \in 1..MaxRuns : ImageResponse(r)
  \/ \E r \in 1..MaxRuns : PostResponse(r)
  \/ StorageCleared

\* the workflow with a credential slot that can be emptied under it
ClientSpec == Init /\ [][ClientNext]_vars

\* ======================================================== archive export
\* seg.imageUrl.split(',')[1]
Base64Data(imageUrl) == imageUrl[2]

\* entry names counted from 0
SlideNameZeroBased(idx) == <<"slide_", idx, ".png">>

\* `slide_${idx + 1}.png`, idx the array index counted from 0
SlideName(idx) == <<"slide_", idx + 1, ".png">>

\* the zip.file(..) calls of segments.forEach((seg, idx) => ..): one entry
\* for every segment with an imageUrl
ZipEntries(segs) ==
  {[name |-> SlideName(idx), data |-> Base64Data(segs[idx + 1].imageUrl)] :
     idx \in {j \in 0..(Len(segs) - 1) : segs[j + 1].imageUrl # <<>>}}

\* downloadAll for a segment list: the file handed to saveAs, <<>> when it
\* returns at `if (!hasImages) return`
ArchiveOf(segs) ==
  IF \E k \in 1..Len(segs) : segs[k].imageUrl # <<>>
  THEN <<[name |-> "carousel_images.zip", entries |-> ZipEntries(segs)]>>
  ELSE <<>>

\* downloadAll: the button of the download panel, which is rendered while
\* segments.some(s => s.imageUrl).  The archive is built from the segments of
\* the render before the await; generateAsync and saveAs read no state, so
\* the handler is one step.
downloadAll ==
  /\ screen = "planner"
  /\ \E k \in 1..Len(segments) : segments[k].imageUrl # <<>>
  /\ lastBlob' = ArchiveOf(segments)
  /\ lastOp' = "download"
  /\ lastAlert' = ""
  /\ UNCHANGED <<workflowVars, uploadVars, hasApiKey, isKeyManagerOpen,
                 localStorageKey, envKey>>
  /\ UNCHANGED <<apiKeyField, password, status, testing, loads>>

ExportNext ==
  \/ OpenPlanner
  \/ SetTopic
  \/ handleGoHome
  \/ handleStartAutomation
  \/ \E r \in 1..MaxRuns : PlanResponse(r)
  \/ \E r \in 1..MaxRuns : ImageResponse(r)
  \/ \E r \in 1..MaxRuns : PostResponse(r)
  \/ downloadAll

\* the workflow with the archive export
ExportSpec == Init /\ [][ExportNext]_vars

\* ===================================================== uninterrupted runs
\* handleGoHome clicked while no run of handleStartAutomation is in flight
ResetAtRest ==
  /\ \A r \in 1..MaxRuns : ~Active(runs[r])
  /\ handleGoHome

\* The workflow when no run is interrupted: a reset comes only between runs,
\* and the start button's guard lets no second run begin beside a first.
UninterruptedNext ==
  \/ OpenPlanner
  \/ SetTopic
  \/ SetCount
  \/ ToggleKeyManager
  \/ ResetAtRest
  \/ StartClickDisabled
  \/ handleStartAutomation
  \/ \E r \in 1..MaxRuns : PlanResponse(r)
  \/ \E r \in 1..MaxRuns : ImageResponse(r)
  \/ \E r \in 1..MaxRuns : PostResponse(r)

UninterruptedSpec == Init /\ [][UninterruptedNext]_vars

\* ======================================================== answered calls
\* The workflow's runs, resets and responses, where the provider answers
\* every call: a response to a pending call is not put off forever.  A run
\* awaits one call at a time, so one condition per run covers its three
\* kinds of response.
LiveNext ==
  \/ OpenPlanner
  \/ SetTopic
  \/ handleGoHome
  \/ handleStartAutomation
  \/ \E r \in 1..MaxRuns : PlanResponse(r)
  \/ \E r \in 1..MaxRuns : ImageResponse(r)
  \/ \E r \in 1..MaxRuns : PostResponse(r)

LiveSpec ==
  /\ Init
  /\ [][LiveNext]_vars
  /\ \A r \in 1..MaxRuns :
       WF_vars(PlanResponse(r) \/ ImageResponse(r) \/ PostResponse(r))

\* ==================================================== edits beside a run
AspectRatios == {"1:1", "4:5"}

\* the two ratio buttons: onClick={() => setRatio('1:1')}, setRatio('4:5')
SetRatio ==
  /\ screen = "planner"
  /\ \E a \in AspectRatios : a # ratio /\ ratio' = a
  /\ lastOp' = "other"
  /\ lastAlert' = ""
  /\ UNCHANGED <<screen, topic, count, segments, postData, workflowState,
                 hasApiKey, isKeyManagerOpen, localStorageKey, envKey, runs>>
  /\ UNCHANGED <<dialogVars, uploadVars>>

\* handleImageUpload with a selection of a few files
handleImageUploadFew ==
  /\ handleImageUpload
  /\ Len(referenceImages') + reading' <= MaxUploaded

\* The workflow with everything the user can edit on the planner while a run
\* is in flight: topic, slide count, ratio and the reference images (the
\* reset, which clears them, comes between runs).
ArgsNext ==
  \/ OpenPlanner
  \/ SetTopic
  \/ SetCount
  \/ SetRatio
  \/ handleImageUploadFew
  \/ ImageRead
  \/ removeReferenceImage
  \/ ResetAtRest
  \/ handleStartAutomation
  \/ \E r \in 1..MaxRuns : PlanResponse(r)
  \/ \E r \in 1..MaxRuns : ImageResponse(r)
  \/ \E r \in 1..MaxRuns : PostResponse(r)

ArgsSpec == Init /\ [][ArgsNext]_vars

\* ============================================ the dialog after an abort
\* the plan call of run r settles with a failure: the run ends in the catch
PlanRejected(r) ==
  /\ PlanResponse(r)
  /\ lastAlert' # ""

\* The credential dialog together with runs that the provider turns down at
\* their first call: what the dialog does after the orchestrator has marked
\* the credential absent.
RekeyNext ==
  \/ OpenPlanner
  \/ SetTopic
  \/ handleStartAutomation
  \/ \E r \in 1..MaxRuns : PlanRejected(r)
  \/ ToggleKeyManager
  \/ SetApiKey
  \/ SetPassword
  \/ handleTest
  \/ TestResponse
  \/ handleSave
  \/ handleLoad
  \/ LoadRead

RekeySpec == Init /\ [][RekeyNext]_vars

\* ================================================================ claims
Runs == 1..MaxRuns

HasImage(seg) == seg.imageUrl # <<>>

ImageCalls(run) == {c \in run.pending : c.kind = "image"}

\* C1: at most one workflow run is in flight at any time: no second run of
\* handleStartAutomation begins while an earlier one still has a provider
\* call pending or steps left to execute.
C1_SingleRunInFlight ==
  Cardinality({r \in Runs : Active(runs[r])}) <= 1

\* C2: within one run the image calls are sequential and in array order: a
\* run has at most one image call outstanding, it is the call for the
\* segment the loop stands at, every segment before it has received its
\* image and no segment from it on has one.
C2_ImageCallsSequential ==
  \A r \in Runs :
    /\ Cardinality(ImageCalls(runs[r])) <= 1
    /\ \A c \in ImageCalls(runs[r]) :
         /\ runs[r].pc = "await_image"
         /\ c.idx = runs[r].i
         /\ c.idx \in 1..Len(runs[r].newSegments)
         /\ \A j \in 1..Len(runs[r].newSegments) :
              HasImage(runs[r].newSegments[j]) <=> j < c.idx

\* a run waits for the image of its second segment, the first one delivered
C2_Witness ==
  \E r \in Runs :
    /\ runs[r].pc = "await_image"
    /\ \E c \in ImageCalls(runs[r]) : c.idx = 2
    /\ HasImage(runs[r].newSegments[1])

\* the step in which run r starts, and the steps in which an awaited call of
\* run r settles: with a result the run goes on with, or with a throw
Starts(r) == runs[r].pc = "unused" /\ runs'[r].pc # "unused"
PlanSucceeds(r) ==
  runs[r].pc = "await_plan" /\ runs'[r].pc \in {"await_image", "await_post"}
ImageSucceeds(r) ==
  /\ runs[r].pc = "await_image"
  /\ runs'[r].pc \in {"await_image", "await_post"}
  /\ runs'[r] # runs[r]
PostSucceeds(r) ==
  runs[r].pc = "await_post" /\ runs'[r].pc = "unused" /\ lastAlert' = ""
Throws(r) == Active(runs[r]) /\ runs'[r].pc = "unused" /\ lastAlert' # ""

\* C3: in a run whose every provider call succeeds workflowState takes the
\* values planning, generating_images, generating_caption, completed in that
\* order, none skipped or revisited, and the run issues one plan call, then
\* one image call per planned segment, then one post call.  (For an empty
\* plan the handler sets generating_images and generating_caption in the
\* same task; the formula lets that pass.)
C3_StateAndCallOrder ==
  [][\A r \in Runs :
       /\ Starts(r) => workflowState' = "planning"
       /\ PlanSucceeds(r) =>
            /\ workflowState = "planning"
            /\ workflowState' = IF runs'[r].pc = "await_image"
                                THEN "generating_images"
                                ELSE "generating_caption"
       /\ (ImageSucceeds(r) /\ runs'[r].pc = "await_image") =>
            workflowState = "generating_images"
            /\ workflowState' = "generating_images"
       /\ (ImageSucceeds(r) /\ runs'[r].pc = "await_post") =>
            workflowState = "generating_images"
            /\ workflowState' = "generating_caption"
       /\ PostSucceeds(r) =>
            workflowState = "generating_caption" /\ workflowState' = "completed"
       /\ PostSucceeds(r) =>
            runs[r].issued = <<"plan">>
                             \o [k \in 1..Len(runs[r].newSegments) |-> "image"]
                             \o <<"post">>
    ]_vars

\* the provider's responses a client function turns into a throw
BadPlanResponse(resp) == resp.kind # "json"
BadImageResponse(resp) ==
  resp.kind = "error" \/ \A k \in 1..Len(resp.parts) : resp.parts[k] = ""
BadPostResponse(resp) == resp.kind # "json"

\* this step is the task that ends in `out` for run r
TaskOf(r, out) ==
  Publish(out.st) /\ runs' = [runs EXCEPT ![r] = out.run]

\* the task `out` is the catch block's: the run is over, its alert shown,
\* workflowState idle and the published segments untouched
EndsInCatch(out) ==
  /\ out.run.pc = "unused"
  /\ out.st.alert # ""
  /\ out.st.workflowState = "idle"
  /\ out.st.segments = segments

\* whatever failing response the provider gives to a call that is pending, the
\* task that handles it is the catch block's
FailuresReachCatch ==
  \A r \in Runs : \A c \in runs[r].pending :
    /\ c.kind = "plan" =>
         \A resp \in {x \in PlanResponses : BadPlanResponse(x)} :
           EndsInCatch(PlanTask(Published, runs[r], generatePlan(c.key, resp),
                                ApiKey))
    /\ (c.kind = "image" /\ c.idx = runs[r].i) =>
         \A resp \in {x \in ImageResponses : BadImageResponse(x)} :
           EndsInCatch(ImageTask(Published, runs[r], generateImage(c.key, resp),
                                 ApiKey))
    /\ c.kind = "post" =>
         \A resp \in {x \in PostResponses : BadPostResponse(x)} :
           EndsInCatch(PostTask(Published, runs[r],
                                generateInstagramPost(c.key, resp)))

\* C4: when a client call of a run throws, workflowState becomes idle and the
\* published segment list, with every imageUrl, is what it was before the
\* failure; and every failing response of the provider (an error, an empty or
\* malformed text, no image part) reaches the catch block of
\* handleStartAutomation: none is swallowed below it.
C4_FailureKeepsArtifacts ==
  /\ []FailuresReachCatch
  /\ [][\A r \in Runs :
          Throws(r) => workflowState' = "idle" /\ segments' = segments]_vars

\* a failure has just been reported and the images delivered before it are
\* still published
C4_Witness ==
  /\ lastAlert # ""
  /\ workflowState = "idle"
  /\ \E k \in 1..Len(segments) : HasImage(segments[k])

\* C5: if the image call for segment k of n fails after segments 1..k-1
\* succeeded, the state after the failure has workflowState idle, segments
\* 1..k-1 published with an image, segments k..n without one, postData null
\* and a failure alert shown.
C5_ImageFailureFinalState ==
  [][\A r \in Runs :
       (Throws(r) /\ runs[r].pc = "await_image") =>
          /\ workflowState' = "idle"
          /\ \A j \in 1..(runs[r].i - 1) :
               j <= Len(segments') /\ HasImage(segments'[j])
          /\ \A j \in runs[r].i..Len(runs[r].newSegments) :
               j <= Len(segments') => ~HasImage(segments'[j])
          /\ postData' = <<>>
          /\ lastAlert' \in {"generic", "invalid_key"}
    ]_vars

RejectedBy(r) ==
  \E c \in runs[r].pending :
    \/ /\ c.kind = "plan"
       /\ TaskOf(r, PlanTask(Published, runs[r],
                     generatePlan(c.key, [kind |-> "error", msg |-> MsgNotFound,
                                          value |-> <<>>]), ApiKey))
    \/ /\ c.kind = "image"
       /\ TaskOf(r, ImageTask(Published, runs[r],
                     generateImage(c.key, [kind |-> "error", msg |-> MsgNotFound,
                                           parts |-> <<>>]), ApiKey))
    \/ /\ c.kind = "post"
       /\ TaskOf(r, PostTask(Published, runs[r],
                     generateInstagramPost(c.key, [kind |-> "error",
                                           msg |-> MsgNotFound, caption |-> ""])))

\* C7 as stated: after a run is aborted because the provider rejected the
\* credential, the credential is stored as absent: get() returns none.
C7_RejectedCredentialAbsent ==
  lastAlert = "invalid_key" => ApiKey = ""

\* C7 as amended: a run aborted because the provider rejected the credential
\* clears the has-credential flag and shows the invalid-credential alert,
\* and leaves the stored credential as it was: get() still returns it.
C7_RejectedCredentialKept ==
  [][\A r \in Runs :
       (Active(runs[r]) /\ runs'[r] # runs[r] /\ RejectedBy(r)) =>
          /\ lastAlert' = "invalid_key"
          /\ ~hasApiKey'
          /\ localStorageKey' = localStorageKey
          /\ envKey' = envKey
          /\ getApiKey(localStorageKey', envKey') = ApiKey
          /\ ApiKey # ""
    ]_vars

\* the provider has just rejected the credential of a run: the flag is
\* cleared and get() still returns the credential
C7_Witness ==
  /\ lastAlert = "invalid_key"
  /\ workflowState = "idle"
  /\ ~hasApiKey
  /\ ApiKey = "k1"

\* C8: every successful generatePlan call with requested count n hands the
\* orchestrator exactly n segments whose ids are 1..n in array order.
C8_PlanLengthAndIds ==
  [][\A r \in Runs :
       PlanSucceeds(r) =>
          /\ Len(runs'[r].newSegments) = runs[r].count
          /\ \A k \in 1..Len(runs'[r].newSegments) :
               runs'[r].newSegments[k].id = k
    ]_vars

\* C9: no published segment has an imageUrl while workflowState is planning;
\* once the image phase of a run has ended every segment of the run has an
\* imageUrl; and an imageUrl a run has written is not written again or
\* cleared by that run.
C9_ImageUrlLifecycle ==
  [][/\ workflowState' = "planning" =>
          \A k \in 1..Len(segments') : ~HasImage(segments'[k])
     /\ \A r \in Runs :
          /\ runs'[r].pc = "await_post" =>
               \A k \in 1..Len(runs'[r].newSegments) :
                 HasImage(runs'[r].newSegments[k])
          /\ (Active(runs[r]) /\ Active(runs'[r])) =>
               \A k \in 1..Len(runs[r].newSegments) :
                 HasImage(runs[r].newSegments[k]) =>
                   runs'[r].newSegments[k] = runs[r].newSegments[k]
    ]_vars

\* C10: postData is written at most once between two consecutive start or
\* reset actions, only after every published segment has received an image,
\* and once written it does not change until the next start or reset.
C10_PostDataWrittenOnce ==
  [][/\ \A r \in Runs : PostSucceeds(r) => postData = <<>>
     /\ (postData = <<>> /\ postData' # <<>>) =>
          \A k \in 1..Len(segments') : HasImage(segments'[k])
     /\ (postData # <<>> /\ lastOp' \notin {"start", "goHome"}) =>
          postData' = postData
    ]_vars

\* C11: starting a run clears the previous run's results before the plan call
\* is issued: while a run waits for its plan (from workflowState becoming
\* planning until the plan resolves) segments is empty and postData is null.
C11_PlanningStartsClean ==
  \A r \in Runs :
    runs[r].pc = "await_plan" => segments = <<>> /\ postData = <<>>

\* an error of the provider whose text holds one of the overload markers
OverloadError(resp) ==
  resp.kind = "error" /\ \E needle \in OverloadNeedles : Includes(resp.msg, needle)

\* what handleTest would do in this state if the provider answered resp
SettledWith(resp) ==
  handleTestSettled(testing[1], resp, localStorageKey, hasApiKey, envKey)

\* every answer that is a success or an overload error makes the pending
\* test persist its candidate
TestPersistsCandidate ==
  testing # <<>> =>
    \A resp \in TestResponses :
      (resp.kind = "text" \/ OverloadError(resp)) =>
        /\ SettledWith(resp).status = "success"
        /\ SettledWith(resp).localStorageKey = testing[1]
        /\ getApiKey(SettledWith(resp).localStorageKey, envKey) = testing[1]
        /\ SettledWith(resp).hasApiKey

\* C12: a credential test that succeeds, or that fails with a provider-
\* overload error (text containing '503', 'UNAVAILABLE' or 'high demand'),
\* persists the tested candidate as the active credential, overwriting any
\* previous one: afterwards get() returns the candidate and hasApiKey is true.
C12_TestPersistsCandidate ==
  /\ []TestPersistsCandidate
  /\ [][(lastOp' = "testSettled" /\ status' = "success") =>
          /\ localStorageKey' = testing[1]
          /\ getApiKey(localStorageKey', envKey') = testing[1]
          /\ hasApiKey'
       ]_vars

\* a test has just replaced the credential stored at page load by another
C12_Witness ==
  /\ lastOp = "testSettled"
  /\ status = "success"
  /\ localStorageKey = "k2"
  /\ ApiKey = "k2"
  /\ hasApiKey

\* every answer that is a failure other than an overload error (no text, or
\* an error without an overload marker) leaves the store and the flag alone
TestFailureWritesNothing ==
  testing # <<>> =>
    \A resp \in TestResponses :
      (resp.kind = "empty" \/ (resp.kind = "error" /\ ~OverloadError(resp))) =>
        /\ SettledWith(resp).status = "error"
        /\ SettledWith(resp).localStorageKey = localStorageKey
        /\ SettledWith(resp).hasApiKey = hasApiKey

\* C13: a credential test that fails with anything other than a provider-
\* overload error (an explicit rejection, an empty response, an empty
\* candidate) writes nothing to the store: the stored credential after the
\* test equals the one before, so from an empty store with no environment
\* fallback get() still returns absent.
C13_FailedTestWritesNothing ==
  /\ []TestFailureWritesNothing
  /\ [][/\ (lastOp' = "testSettled" /\ status' = "error") =>
             /\ localStorageKey' = localStorageKey
             /\ hasApiKey' = hasApiKey
             /\ (ApiKey = "" => getApiKey(localStorageKey', envKey') = "")
        /\ (lastOp' = "test" /\ apiKeyField = "") =>
             /\ status' = "error"
             /\ testing' = testing
             /\ localStorageKey' = localStorageKey
             /\ hasApiKey' = hasApiKey
       ]_vars

\* a test of a candidate has just failed and there is still no credential
C13_Witness ==
  /\ lastOp = "testSettled"
  /\ status = "error"
  /\ apiKeyField # ""
  /\ ApiKey = ""
  /\ ~hasApiKey

\* C14: the persistent credential slot is written only as the result of a
\* successful credential test or a successful encrypted import: no other
\* operation (in particular the export to an encrypted file) changes the
\* stored credential.
C14_StoreWrittenByTestOrImportOnly ==
  [][localStorageKey' # localStorageKey =>
       \/ lastOp' = "testSettled" /\ status' = "success"
       \/ lastOp' = "loadRead" /\ lastAlert' = "loaded"
    ]_vars

\* C15: calling get() twice with no intervening credential test or import
\* returns the same credential both times, whatever other operations (export
\* to file, workflow runs, run failures, resets) happen between the calls.
C15_GetStableWithoutTestOrImport ==
  [][lastOp' \notin {"testSettled", "loadRead"} =>
       getApiKey(localStorageKey', envKey') = getApiKey(localStorageKey, envKey)
    ]_vars

\* the FileReaders that fire in this step
Fired == loads \ loads'

\* C16: credential round trip: for every non-empty credential c and non-empty
\* passphrase p, importing with p the blob produced by exporting c with p
\* succeeds and makes c the active stored credential (get() returns c),
\* overwriting whatever credential was stored before.
C16_ExportImportRoundTrip ==
  [][/\ (lastOp' = "save" /\ lastBlob' # <<>>) =>
          /\ apiKeyField # "" /\ password # ""
          /\ lastBlob'[1] \in Files
          /\ \A d \in Decrypt(lastBlob'[1], password) :
               onload(d) = [alert |-> "loaded", key |-> apiKeyField]
     /\ lastOp' = "loadRead" =>
          \A l \in Fired : \A c \in Keys, p \in Passphrases :
            (l.file = Encrypt(Stringify(c), p) /\ l.password = p) =>
               /\ lastAlert' = "loaded"
               /\ localStorageKey' = c
               /\ getApiKey(localStorageKey', envKey') = c
               /\ hasApiKey'
    ]_vars

\* an import has just replaced the credential stored at page load
C16_Witness ==
  /\ lastOp = "loadRead"
  /\ lastAlert = "loaded"
  /\ localStorageKey = "k2"
  /\ ApiKey = "k2"
  /\ apiKeyField = "k2"
  /\ hasApiKey

\* C17: importing a blob with a passphrase different from the one it was
\* exported with fails with a decryption failure, and a failed import (wrong
\* passphrase, empty passphrase, corrupt blob, or payload without the
\* credential field) leaves the stored credential and the has-credential flag
\* unchanged.
C17_FailedImportWritesNothing ==
  [][/\ lastOp' = "loadRead" =>
          \A l \in Fired :
            /\ (l.file.cipher = "aes" /\ l.password # l.file.pass) =>
                 lastAlert' = "load_failed"
            /\ (\/ l.file.cipher # "aes"
                \/ l.password # l.file.pass
                \/ ParseThrows(l.file.plain)
                \/ GEMINI_API_KEY(Parse(l.file.plain)) = "") =>
                 /\ lastAlert' # "loaded"
                 /\ localStorageKey' = localStorageKey
                 /\ hasApiKey' = hasApiKey
     /\ (lastOp' = "load" /\ password = "") =>
          /\ lastAlert' = "load_needs_password"
          /\ loads' = loads
          /\ localStorageKey' = localStorageKey
          /\ hasApiKey' = hasApiKey
    ]_vars

\* an import has just failed to decrypt and the stored credential is there
C17_Witness ==
  /\ lastOp = "loadRead"
  /\ lastAlert = "load_failed"
  /\ localStorageKey = "k1"
  /\ apiKeyField = "k1"
  /\ hasApiKey

\* the alerts by which an import reports a failure
ImportFailureAlerts == {"load_failed", "load_bad_payload"}

\* C18: the import reports a failure to the user in both failure cases and
\* with different reasons: one outcome when decryption yields no plaintext
\* (wrong passphrase or corrupt blob), and a different reported error outcome
\* when decryption succeeds but the parsed payload is malformed or lacks the
\* credential field.
C18_ImportFailuresReportedDistinctly ==
  [][lastOp' = "loadRead" =>
       \A l \in Fired :
         /\ (l.file.cipher # "aes" \/ l.password # l.file.pass) =>
              lastAlert' = "load_failed"
         /\ (/\ l.file.cipher = "aes"
             /\ l.password = l.file.pass
             /\ \/ ParseThrows(l.file.plain)
                \/ GEMINI_API_KEY(Parse(l.file.plain)) = "") =>
              lastAlert' \in ImportFailureAlerts \ {"load_failed"}
    ]_vars

\* C19: an export with an empty credential or an empty passphrase fails: no
\* blob is produced for download and neither the stored credential nor the
\* has-credential flag changes.
C19_ExportNeedsKeyAndPassphrase ==
  [][(lastOp' = "save" /\ (apiKeyField = "" \/ password = "")) =>
       /\ lastBlob' = <<>>
       /\ lastAlert' = "save_needs_input"
       /\ localStorageKey' = localStorageKey
       /\ hasApiKey' = hasApiKey
    ]_vars

\* an export of a key without a passphrase has just been refused
C19_Witness ==
  /\ lastOp = "save"
  /\ lastAlert = "save_needs_input"
  /\ apiKeyField = "k2"
  /\ password = ""
  /\ lastBlob = <<>>
  /\ localStorageKey # "k2"

\* C20: an upload that would bring the reference-image total above 20
\* (current count + number of selected files > 20) is rejected as a whole and
\* leaves the existing reference-image set unchanged; no file of the rejected
\* batch is added: no FileReader is started for it.
C20_UploadOverLimitRejected ==
  [][/\ (lastOp' = "upload" /\ lastAlert' = "too_many_images") =>
          referenceImages' = referenceImages /\ reading' = reading
     /\ (lastOp' = "upload" /\ reading' # reading) =>
          /\ lastAlert' = ""
          /\ Len(referenceImages) + (reading' - reading) <= MaxReferenceImages
    ]_vars

\* a selection has just been refused with 19 images in the set
C20_Witness ==
  /\ lastOp = "upload"
  /\ lastAlert = "too_many_images"
  /\ Len(referenceImages) = MaxReferenceImages - 1
  /\ reading = 0

\* C21: the reference-image set never holds more than 20 images in any
\* reachable state, including when a second upload is accepted while the
\* file reads of an earlier accepted upload have not yet appended their
\* results.
C21_AtMostTwentyImages ==
  Len(referenceImages) <= MaxReferenceImages

\* a step of the user: no awaited call of an active run settles in it
NoResponse == \A r \in Runs : Active(runs[r]) => runs'[r] = runs[r]

\* C22: if a provider call of an active run never responds the workflow
\* stays blocked: no in-app user action returns workflowState to idle or
\* allows a new run to start.
C22_HungCallBlocksWorkflow ==
  [][((\E r \in Runs : Active(runs[r])) /\ NoResponse) =>
       /\ (workflowState # "idle" => workflowState' # "idle")
       /\ runs' = runs
    ]_vars

\* C23: completed is terminal: once workflowState is completed it, the
\* segment list and postData stay unchanged until a fresh run is started or
\* the user resets, and from completed a fresh run can be started.  (The
\* start button is disabled outside idle, so the fresh run is read as the
\* one started after the reset that completed offers; the formula states
\* that nothing but a start or a reset changes the completed state.)
C23_CompletedIsTerminal ==
  [][(workflowState = "completed" /\ lastOp' \notin {"start", "goHome"}) =>
       UNCHANGED <<workflowState, segments, postData>>]_vars

\* the responses with which a client function returns a value
GoodPlanResponses == {x \in PlanResponses : ~BadPlanResponse(x)}
GoodImageResponses == {x \in ImageResponses : ~BadImageResponse(x)}

\* without a credential each client function throws the missing-credential
\* error whatever the provider would answer
ClientNeedsCredential ==
  /\ \A resp \in PlanResponses : generatePlan("", resp) = Throw(MsgMissingKey)
  /\ \A resp \in ImageResponses : generateImage("", resp) = Throw(MsgMissingKey)
  /\ \A resp \in PostResponses :
       generateInstagramPost("", resp) = Throw(MsgMissingKey)

\* no request is in flight that was issued without a credential
NoCallWithoutCredential ==
  \A r \in Runs : \A c \in runs[r].pending : c.key # ""

\* the task `out` is the catch block's with the generic alert: the run is
\* over, workflowState idle, the has-credential flag as it was
AbortsGeneric(out) ==
  /\ out.run.pc = "unused"
  /\ out.st.workflowState = "idle"
  /\ out.st.alert = "generic"
  /\ out.st.hasApiKey = hasApiKey

\* while get() is absent, the next client call of every run (after whatever
\* result its pending call returns) aborts the run with the generic alert
NextCallAbortsWithoutCredential ==
  ApiKey = "" =>
    \A r \in Runs : \A c \in runs[r].pending :
      /\ c.kind = "plan" =>
           \A resp \in GoodPlanResponses :
             AbortsGeneric(PlanTask(Published, runs[r],
                                    generatePlan(c.key, resp), ApiKey))
      /\ (c.kind = "image" /\ c.idx = runs[r].i) =>
           \A resp \in GoodImageResponses :
             AbortsGeneric(ImageTask(Published, runs[r],
                                     generateImage(c.key, resp), ApiKey))

\* C24: each of generatePlan, generateImage and generateInstagramPost, called
\* with no active credential (get() absent), fails immediately with the
\* missing-credential error and issues no request to the provider; in a run
\* this sends the workflow to idle with the generic failure alert.
C24_MissingCredentialFailsAtOnce ==
  /\ [](ClientNeedsCredential /\ NoCallWithoutCredential
        /\ NextCallAbortsWithoutCredential)
  /\ [][(lastOp' = "start" /\ hasApiKey /\ ApiKey = "") =>
          /\ runs' = runs
          /\ workflowState' = "idle"
          /\ lastAlert' = "generic"
       ]_vars

\* handleStartAutomation has just run with the flag set and the slot empty:
\* generatePlan threw at once and the catch block reported it
C24_Witness ==
  /\ lastOp = "start"
  /\ lastAlert = "generic"
  /\ hasApiKey
  /\ ApiKey = ""
  /\ workflowState = "idle"
  /\ \A r \in Runs : runs[r].pc = "unused"

\* n image calls
ImageCallsIssued(n) == [k \in 1..n |-> "image"]

\* the calls a run has issued: the plan call once, then one image call per
\* segment up to the one the loop stands at, then the post call once
IssuedOnce ==
  \A r \in Runs :
    /\ runs[r].pc = "await_plan" => runs[r].issued = <<"plan">>
    /\ runs[r].pc = "await_image" =>
         /\ runs[r].i \in 1..Len(runs[r].newSegments)
         /\ runs[r].issued = <<"plan">> \o ImageCallsIssued(runs[r].i)
    /\ runs[r].pc = "await_post" =>
         runs[r].issued = <<"plan">>
                          \o ImageCallsIssued(Len(runs[r].newSegments))
                          \o <<"post">>
    /\ Cardinality(runs[r].pending) <= 1
    /\ Active(runs[r]) <=> runs[r].pending # {}

\* the task `out` ends the run for good and updates nothing but what the
\* error path resets: workflowState, the alert and the has-credential flag
EndsRun(out) ==
  /\ out.run = IdleRun
  /\ out.st.workflowState = "idle"
  /\ out.st.alert # ""
  /\ out.st.segments = segments
  /\ out.st.postData = postData
  /\ out.st.isKeyManagerOpen = isKeyManagerOpen

\* whatever failing response a pending call gets, the transient overload
\* included, the run ends there
FirstFailureEndsRun ==
  \A r \in Runs : \A c \in runs[r].pending :
    /\ c.kind = "plan" =>
         \A resp \in {x \in PlanResponses : BadPlanResponse(x)} :
           EndsRun(PlanTask(Published, runs[r], generatePlan(c.key, resp),
                            ApiKey))
    /\ c.kind = "image" =>
         \A resp \in {x \in ImageResponses : BadImageResponse(x)} :
           EndsRun(ImageTask(Published, runs[r], generateImage(c.key, resp),
                             ApiKey))
    /\ c.kind = "post" =>
         \A resp \in {x \in PostResponses : BadPostResponse(x)} :
           EndsRun(PostTask(Published, runs[r],
                            generateInstagramPost(c.key, resp)))

\* C25: no retry inside a run: a run issues the plan call at most once, at
\* most one image call per segment and the post call at most once, and after
\* the first failed call (a transient-overload failure included) that run
\* issues no further provider call and performs no further state update
\* other than the error-path reset.
C25_NoRetry ==
  IssuedOnce /\ FirstFailureEndsRun

\* the second image call of a run has just failed: the run is gone, the
\* first image stays published
C25_Witness ==
  /\ lastAlert = "generic"
  /\ workflowState = "idle"
  /\ \A r \in Runs : runs[r] = IdleRun
  /\ Len(segments) = 2
  /\ HasImage(segments[1]) /\ ~HasImage(segments[2])

\* C26: get() returns the credential in local storage when one is stored,
\* otherwise the process-environment value when one exists, otherwise
\* absent: a stored credential always takes precedence over the environment
\* fallback.
C26_StoredCredentialFirst ==
  /\ localStorageKey # "" => ApiKey = localStorageKey
  /\ (localStorageKey = "" /\ envKey # "") => ApiKey = envKey
  /\ (localStorageKey = "" /\ envKey = "") => ApiKey = ""

\* a test has just stored a credential while the environment holds another:
\* get() returns the stored one
C26_Witness ==
  /\ lastOp = "testSettled"
  /\ localStorageKey = "k2"
  /\ envKey = "e1"
  /\ ApiKey = "k2"

\* the array positions (from 1) of the published segments that have an image
WithImage == {k \in 1..Len(segments) : HasImage(segments[k])}

\* C27: the archive export packages exactly the segments that have an image,
\* one entry each, the entry for the segment at array index i being named
\* slide_(i+1).png (its slide position, not a renumbering of the images
\* present); when no segment has an image it produces no archive.
C27_ArchiveEntries ==
  /\ [](WithImage = {} => ArchiveOf(segments) = <<>>)
  /\ [][lastOp' = "download" =>
          /\ lastBlob' # <<>>
          /\ Cardinality(lastBlob'[1].entries) = Cardinality(WithImage)
          /\ \A k \in WithImage :
               \E e \in lastBlob'[1].entries :
                 /\ e.name = <<"slide_", k, ".png">>
                 /\ DataUri(e.data) = segments[k].imageUrl
          /\ \A e \in lastBlob'[1].entries :
               \E k \in WithImage : e.name = <<"slide_", k, ".png">>
       ]_vars

\* an archive of one entry has just been saved for a list of two segments
C27_Witness ==
  /\ lastOp = "download"
  /\ lastBlob # <<>>
  /\ Len(segments) = 2
  /\ HasImage(segments[1]) /\ ~HasImage(segments[2])
  /\ Cardinality(lastBlob[1].entries) = 1

\* the plan a segment list carries: everything but the images
PlanOf(segs) ==
  [k \in 1..Len(segs) |->
     [id |-> segs[k].id, logicalStep |-> segs[k].logicalStep,
      keyMessage |-> segs[k].keyMessage, visualPrompt |-> segs[k].visualPrompt]]

\* the segments with an image are the first ones of the list
ImagesFormPrefix(segs) ==
  \A k \in 1..Len(segs) :
    HasImage(segs[k]) => \A j \in 1..(k - 1) : HasImage(segs[j])

\* C28: progressive publishing in a run that is not interrupted (no reset and
\* no other run while it is in flight): while the run waits for its image
\* call number i the published list is the run's list with images on exactly
\* the first i - 1 segments, after the last image on all of them; the
\* segments with an image always form a prefix of the published list; and
\* the list published with the plan is the provider's array, of which every
\* later image step keeps the order and each segment's id, logicalStep,
\* keyMessage and visualPrompt.
C28_ProgressivePublishing ==
  /\ [](\A r \in Runs :
          /\ runs[r].pc = "await_image" =>
               /\ segments = runs[r].newSegments
               /\ \A k \in 1..Len(segments) :
                    HasImage(segments[k]) <=> k < runs[r].i
          /\ runs[r].pc = "await_post" =>
               /\ segments = runs[r].newSegments
               /\ \A k \in 1..Len(segments) : HasImage(segments[k]))
  /\ []ImagesFormPrefix(segments)
  /\ [][\A r \in Runs :
          /\ PlanSucceeds(r) => segments' \in PlanArrays
          /\ ImageSucceeds(r) => PlanOf(segments') = PlanOf(segments)
       ]_vars

\* the first of two images is published and the run waits for the second
C28_Witness ==
  \E r \in Runs :
    /\ runs[r].pc = "await_image"
    /\ runs[r].i = 2
    /\ Len(segments) = 2
    /\ HasImage(segments[1]) /\ ~HasImage(segments[2])
    /\ workflowState = "generating_images"

\* C29: whenever workflowState is generating_caption or completed, every
\* published segment has an imageUrl, and while it is generating_caption the
\* published list is the working list of a run that has finished its image
\* loop and awaits its caption.
C29_CaptionPhaseHasAllImages ==
  workflowState \in {"generating_caption", "completed"} =>
    /\ \A k \in 1..Len(segments) : HasImage(segments[k])
    /\ workflowState = "generating_caption" =>
         \E r \in Runs :
           runs[r].pc = "await_post" /\ segments = runs[r].newSegments

\* the message of the error a task of a run ends with: the one the client
\* function threw, or, when the awaited call returned and the task failed,
\* the next call's complaint about the missing credential
FailureMsg(res) == IF res.ok THEN MsgMissingKey ELSE res.msg

\* the task `out`, if it is the catch block's, has classified the error msg
Classified(out, msg) ==
  (out.run.pc = "unused" /\ out.st.alert # "") =>
    IF Includes(msg, NotFoundNeedle)
    THEN ~out.st.hasApiKey /\ out.st.alert = "invalid_key"
    ELSE out.st.hasApiKey = hasApiKey /\ out.st.alert = "generic"

\* whatever the provider answers to a call that is pending, a task that ends
\* in the catch block has classified its error
FailuresClassified ==
  \A r \in Runs : \A c \in runs[r].pending :
    /\ c.kind = "plan" =>
         \A resp \in PlanResponses :
           LET res == generatePlan(c.key, resp) IN
           Classified(PlanTask(Published, runs[r], res, ApiKey), FailureMsg(res))
    /\ (c.kind = "image" /\ c.idx = runs[r].i) =>
         \A resp \in ImageResponses :
           LET res == generateImage(c.key, resp) IN
           Classified(ImageTask(Published, runs[r], res, ApiKey), FailureMsg(res))
    /\ c.kind = "post" =>
         \A resp \in PostResponses :
           LET res == generateInstagramPost(c.key, resp) IN
           Classified(PostTask(Published, runs[r], res), res.msg)

\* C30: a run failure whose message contains 'Requested entity was not found'
\* sets the has-credential flag to false and shows the invalid-credential
\* alert; every other failure shows the generic alert and leaves the flag
\* as it was; and the step that shows either alert leaves the stored
\* credential (and the environment's) untouched.
C30_ErrorClassification ==
  /\ []FailuresClassified
  /\ [][lastAlert' # "" =>
          /\ lastAlert' \in {"invalid_key", "generic"}
          /\ lastAlert' = "invalid_key" => ~hasApiKey'
          /\ (lastAlert' = "generic" /\ lastAlert = "") => hasApiKey' = hasApiKey
          /\ localStorageKey' = localStorageKey
          /\ envKey' = envKey
       ]_vars

\* a run has just failed with an error of the other kind (here the provider
\* is overloaded, or the credential went missing): generic alert, flag and
\* stored credential as before
C30_Witness ==
  /\ lastAlert = "generic"
  /\ lastOp # "start"
  /\ workflowState = "idle"
  /\ hasApiKey
  /\ segments # <<>>

\* C31: when the provider answers every call, every started run finishes
\* (no run stays in flight for ever: from every state a state is reached in
\* which it is not, which is Active ~> ~Active);
\* the step in which it finishes sets workflowState to completed or to idle;
\* and a run issues at most 1 + n + 1 provider calls for a plan of n segments.
C31_RunsTerminate ==
  /\ \A r \in Runs : []<>~Active(runs[r])
  /\ [](\A r \in Runs :
          Len(runs[r].issued) <= 1 + Len(runs[r].newSegments) + 1)
  /\ [][\A r \in Runs :
          (Active(runs[r]) /\ ~Active(runs'[r])) =>
             workflowState' \in {"completed", "idle"}
       ]_vars

\* a run with a plan of two segments has issued its fourth and last call
C31_Witness ==
  \E r \in Runs :
    /\ runs[r].pc = "await_post"
    /\ Len(runs[r].newSegments) = 2
    /\ Len(runs[r].issued) = 4

\* the published state handleGoHome leaves
ResetState == workflowState = "idle" /\ segments = <<>> /\ postData = <<>>

\* C32: reset is stable: from the step of handleGoHome on, workflowState
\* stays idle, segments empty and postData null until the next start, also
\* when a run was in flight at the reset and its calls settle afterwards.
C32_ResetIsStable ==
  /\ [](lastOp = "goHome" => ResetState)
  /\ [][(ResetState /\ lastOp' # "start") => ResetState']_vars

\* C33: the credential a test persists is the candidate it sent to the
\* provider, i.e. the key input's value at the click, whatever the input holds
\* when the call settles; and at most one test is in flight: while one is,
\* the test button is disabled and no step starts another.
C33_TestStoresWhatItSent ==
  /\ [](testing # <<>> => status = "testing")
  /\ [][/\ (lastOp' = "test" /\ testing' # <<>>) =>
             testing = <<>> /\ testing' = <<apiKeyField>>
        /\ (testing # <<>> /\ lastOp' # "testSettled") => testing' = testing
        /\ (lastOp' = "testSettled" /\ status' = "success") =>
             /\ testing # <<>>
             /\ localStorageKey' = testing[1]
       ]_vars

\* a test has just stored its candidate although the key input was edited to
\* another value while the call was pending
C33_Witness ==
  /\ lastOp = "testSettled"
  /\ status = "success"
  /\ apiKeyField # ""
  /\ apiKeyField # localStorageKey

\* C34: a run uses the topic, slide count, aspect ratio and reference images
\* of the moment it was started for all its calls: its closure holds the
\* values the planner showed at the click and does not change while the run
\* is in flight, whatever the user edits meanwhile, and the arguments of the
\* call the run awaits are taken from the closure (the plan call: topic,
\* count, ratio, images; an image call: the segment the loop stands at,
\* ratio, images; the post call: topic and the run's own segment list).
C34_RunUsesStartArguments ==
  /\ [](\A r \in Runs :
          /\ runs[r].pc = "await_plan" =>
               runs[r].args = <<runs[r].topic, runs[r].count, runs[r].ratio,
                                runs[r].referenceImages>>
          /\ runs[r].pc = "await_image" =>
               runs[r].args = <<runs[r].i, runs[r].ratio,
                                runs[r].referenceImages>>
          /\ runs[r].pc = "await_post" =>
               runs[r].args = <<runs[r].topic, "newSegments">>)
  /\ [][\A r \in Runs :
          /\ Starts(r) =>
               /\ runs'[r].topic = topic
               /\ runs'[r].count = count
               /\ runs'[r].ratio = ratio
               /\ runs'[r].referenceImages = referenceImages
          /\ (Active(runs[r]) /\ Active(runs'[r])) =>
               /\ runs'[r].topic = runs[r].topic
               /\ runs'[r].ratio = runs[r].ratio
               /\ runs'[r].referenceImages = runs[r].referenceImages
               /\ runs'[r].pc = "await_plan" => runs'[r].count = runs[r].count
       ]_vars

\* a run awaits its second image call with the arguments of its start, while
\* the planner shows another topic, ratio and set of reference images
C34_Witness ==
  \E r \in Runs :
    /\ runs[r].pc = "await_image"
    /\ runs[r].i = 2
    /\ runs[r].topic # topic
    /\ runs[r].ratio # ratio
    /\ runs[r].referenceImages # referenceImages
    /\ runs[r].args[2] # ratio
    /\ runs[r].args[3] # referenceImages

\* the step is an operation of the dialog that has written the store and
\* signalled onKeyUpdated: a test that stored its candidate, an export, or an
\* import that found a credential
RereadsStore ==
  \/ lastOp' = "testSettled" /\ status' = "success"
  \/ lastOp' = "save" /\ lastAlert' = "saved"
  \/ lastOp' = "loadRead" /\ lastAlert' = "loaded"

\* C35: no operation of the app removes or empties the stored credential, so
\* once get() returns a credential it returns one in every later state; and
\* every operation that re-reads the store (a successful test, an export, an
\* import that found a credential) leaves the has-credential flag true, also
\* after an invalid-credential abort has cleared it.
C35_CredentialNeverRemoved ==
  [][/\ localStorageKey # "" => localStorageKey' # ""
     /\ ApiKey # "" => getApiKey(localStorageKey', envKey') # ""
     /\ RereadsStore => (hasApiKey' /\ localStorageKey' # "")
    ]_vars

\* an invalid-credential abort has cleared the flag, get() still returns the
\* credential, and a test of a candidate is under way in the dialog
C35_Witness ==
  /\ ~hasApiKey
  /\ ApiKey # ""
  /\ testing # <<>>
  /\ status = "testing"
  /\ workflowState = "idle"

====
